---- MODULE Spec2Model ----
(***************************************************************************)
(* Model of the chipa-license-validator crate: the ChipaFile container     *)
(* codec (src/src/encryption.rs) and the TClient secure channel            *)
(* (src/src/client.rs).                                                    *)
(*                                                                         *)
(* Bytes are symbolic.  A byte is a record [t, ks, v]: v is the clear      *)
(* value 0..255, ks is the stack of key scopes the byte is encrypted       *)
(* under (outermost first) and t tells a data byte from the seal an        *)
(* encryption puts in front of its output.  A byte with ks = << >> is a    *)
(* clear byte.                                                             *)
(***************************************************************************)
EXTENDS Integers, Sequences, FiniteSets, TLC

VARIABLES
    fs,        \* the file system: file name -> [exists, data]
    env,       \* the ChipaFile value the caller holds
    last,      \* what the last envelope operation was given and returned
    saved,     \* history: per file, the last save that completed on it
    nops,      \* number of envelope operations performed so far
    calls,     \* per validate_license call: its position and its data
    base_url,  \* TClient.base_url
    savers     \* per concurrent save: its position, its envelope and its handle

fileVars == <<fs, env, last, saved, nops>>
clientVars == <<calls, base_url>>
vars == <<fs, env, last, saved, nops, calls, base_url, savers>>

----------------------------------------------------------------------------
(* Bounds of the model *)

MaxOps == 4      \* envelope operations in one behaviour

----------------------------------------------------------------------------
(* Bytes and the encryption capability (tenacity_utils, consumed contract) *)

U16Max == 65535
ByteMod == 256

V1 == 1
V2 == 2
KnownVersions == {V1, V2}

\* u16::from(Version): the number of a version
VersionNumber(version) == version

\* Version::try_from(u16)
VersionTryFrom(n) ==
    IF n \in KnownVersions THEN [ok |-> TRUE, version |-> n]
                           ELSE [ok |-> FALSE, version |-> 0]

Raw(n) == [t |-> "d", ks |-> << >>, v |-> n]
RawSeq(ns) == [i \in 1..Len(ns) |-> Raw(ns[i])]

KeyScope(version, key) == <<version, "key", key>>
BaseScope(version) == <<version, "base", "">>

Seal(scope, n) == [t |-> "seal", ks |-> <<scope>>, v |-> n]
EncByte(scope, b) == [b EXCEPT !.ks = <<scope>> \o @]
DecByte(b) == [b EXCEPT !.ks = Tail(@)]

\* encrypt under a scope: a seal that binds the scope and the length,
\* then every byte of the plaintext under the scope
Encrypt(scope, plain) ==
    <<Seal(scope, Len(plain))>> \o [i \in 1..Len(plain) |-> EncByte(scope, plain[i])]

\* decrypt under a scope: fails on another scope's output and on a
\* ciphertext that is not whole
Decrypt(scope, cipher) ==
    IF /\ Len(cipher) >= 1
       /\ cipher[1] = Seal(scope, Len(cipher) - 1)
       /\ \A i \in 2..Len(cipher) :
            /\ cipher[i].ks # << >>
            /\ Head(cipher[i].ks) = scope
    THEN [ok |-> TRUE, bytes |-> [i \in 1..(Len(cipher) - 1) |-> DecByte(cipher[i + 1])]]
    ELSE [ok |-> FALSE, bytes |-> << >>]

encrypt_bytes(version, key, plain) == Encrypt(KeyScope(version, key), plain)
decrypt_bytes(version, key, cipher) == Decrypt(KeyScope(version, key), cipher)
base_encrypt_bytes(version, plain) == Encrypt(BaseScope(version), plain)
base_decrypt_bytes(version, cipher) == Decrypt(BaseScope(version), cipher)

----------------------------------------------------------------------------
(* The payload codec (rmp_serde, MessagePack).  The payload type of the    *)
(* model is Vec<Option<u8>>: an element is NoneElem (None) or n in 0..255  *)
(* (Some(n)).                                                              *)

NoneElem == -1
NilMarker == 192       \* 0xc0
U8Marker == 204        \* 0xcc
FixArray == 144        \* 0x90
FixArrayMax == 15
FixIntMax == 127
Bin8Marker == 196      \* 0xc4

\* the payloads the caller passes: of three sizes, with a nil, a fixint and a u8
Payloads == {<<NoneElem>>, <<200>>, <<7, NoneElem, 200>>}

\* serialize_none writes nil; serialize_some writes the value itself
ElemBytes(e) ==
    IF e < 0 THEN <<NilMarker>>
    ELSE IF e <= FixIntMax THEN <<e>>
    ELSE <<U8Marker, e>>

RECURSIVE ElemsBytes(_)
ElemsBytes(p) ==
    IF p = << >> THEN << >> ELSE ElemBytes(Head(p)) \o ElemsBytes(Tail(p))

\* rmp_serde::to_vec(&T)
to_vec(p) == RawSeq(<<FixArray + Len(p)>> \o ElemsBytes(p))

IsClear(b) == b.t = "d" /\ b.ks = << >>

\* the elements read from position pos on, n of them; a nil reads as None
RECURSIVE ReadElems(_, _, _)
ReadElems(bytes, pos, n) ==
    IF n = 0 THEN [ok |-> TRUE, val |-> << >>]
    ELSE IF pos > Len(bytes) THEN [ok |-> FALSE, val |-> << >>]
    ELSE LET m == bytes[pos].v
             one == IF m = NilMarker THEN [ok |-> TRUE, e |-> NoneElem, next |-> pos + 1]
                    ELSE IF m <= FixIntMax THEN [ok |-> TRUE, e |-> m, next |-> pos + 1]
                    ELSE IF m = U8Marker /\ pos + 1 <= Len(bytes)
                         THEN [ok |-> TRUE, e |-> bytes[pos + 1].v, next |-> pos + 2]
                    ELSE [ok |-> FALSE, e |-> 0, next |-> pos]
         IN IF ~one.ok THEN [ok |-> FALSE, val |-> << >>]
            ELSE LET rest == ReadElems(bytes, one.next, n - 1)
                 IN IF rest.ok THEN [ok |-> TRUE, val |-> <<one.e>> \o rest.val]
                    ELSE [ok |-> FALSE, val |-> << >>]

\* rmp_serde::from_slice::<T>(bytes)
from_slice(bytes) ==
    IF /\ Len(bytes) >= 1
       /\ \A i \in 1..Len(bytes) : IsClear(bytes[i])
       /\ bytes[1].v >= FixArray
       /\ bytes[1].v <= FixArray + FixArrayMax
    THEN ReadElems(bytes, 2, bytes[1].v - FixArray)
    ELSE [ok |-> FALSE, val |-> << >>]

----------------------------------------------------------------------------
(* The envelope codec: #[derive(Serialize, Deserialize)] struct ChipaFile  *)
(* { version, body } as a MessagePack array of two.                        *)

EnvArray == 146        \* 0x92

\* rmp_serde::encode::to_vec(&ChipaFile { version, body })
SerializeEnvelope(version, body) ==
    RawSeq(<<EnvArray, VersionNumber(version), Bin8Marker, Len(body)>>) \o body

\* rmp_serde::from_slice::<ChipaFile>(slice)
DeserializeEnvelope(slice) ==
    IF /\ Len(slice) >= 4
       /\ \A i \in 1..4 : IsClear(slice[i])
       /\ slice[1].v = EnvArray
       /\ VersionTryFrom(slice[2].v).ok
       /\ slice[3].v = Bin8Marker
       /\ slice[4].v = Len(slice) - 4
    THEN [ok |-> TRUE, version |-> VersionTryFrom(slice[2].v).version,
          body |-> SubSeq(slice, 5, Len(slice))]
    ELSE [ok |-> FALSE, version |-> 0, body |-> << >>]

----------------------------------------------------------------------------
(* Paths (std::path).  A file name is the sequence of its parts between    *)
(* dots: "a.chipa" is <<"a", "chipa">>, "a" is <<"a">> and ".chipa" is     *)
(* <<"", "chipa">>.                                                        *)

ContainerExt == "chipa"

NoExt == [some |-> FALSE, ext |-> ""]

\* Path::extension: none without a dot, and none for a name that begins
\* with its only dot
Extension(path) ==
    IF Len(path) = 1 THEN NoExt
    ELSE IF Len(path) = 2 /\ path[1] = "" THEN NoExt
    ELSE [some |-> TRUE, ext |-> path[Len(path)]]

\* PathBuf::set_extension: the stem keeps everything but the extension
SetExtension(path, ext) ==
    IF Extension(path).some
    THEN SubSeq(path, 1, Len(path) - 1) \o <<ext>>
    ELSE path \o <<ext>>

RawPaths == {<<"a">>, <<"a", "txt">>, <<"a", "chipa">>, <<"", "chipa">>}

\* a save that writes to the path as given
SavePathAsGiven(path) == path

\* the match at the head of save
SavePath(path) ==
    IF Extension(path).some
    THEN IF Extension(path).ext # ContainerExt
         THEN SetExtension(path, ContainerExt)
         ELSE path
    ELSE SetExtension(path, ContainerExt)

\* the match at the head of load
LoadPathOk(path) ==
    Extension(path).some /\ Extension(path).ext = ContainerExt

Files == RawPaths \cup {SavePath(p) : p \in RawPaths}

----------------------------------------------------------------------------
(* Files *)

NoFile == [exists |-> FALSE, data |-> << >>]
FileOf(data) == [exists |-> TRUE, data |-> data]

\* an open without truncate(true)
OpenKeep(file) == FileOf(file.data)

\* OpenOptions::new().create(true).write(true).truncate(true).open(path)
OpenTruncate(file) == FileOf(<< >>)

\* write_all at the handle's offset: overwrites what is there, extends the
\* file, and leaves a hole of zero bytes when the offset is past the end
WriteAt(file, pos, bytes) ==
    LET hole == IF Len(file.data) < pos
                THEN [i \in 1..(pos - Len(file.data)) |-> Raw(0)]
                ELSE << >>
        data == file.data \o hole
    IN FileOf(SubSeq(data, 1, pos) \o bytes
              \o SubSeq(data, pos + Len(bytes) + 1, Len(data)))

\* the prefix in little-endian order
to_le_bytes(n) == <<n % ByteMod, n \div ByteMod>>

\* u16::to_be_bytes
to_be_bytes(n) == <<n \div ByteMod, n % ByteMod>>

\* a parse that reads the low byte only
PrefixNumberLowByte(b0, b1) == b1

\* file[0] as u16 * 256 + file[1] as u16
PrefixNumber(b0, b1) == (b0 * 256 + b1) % (U16Max + 1)

----------------------------------------------------------------------------
(* ChipaFile *)

Keys == {"k1", "k2"}

NoEnv == [held |-> FALSE, version |-> 0, body |-> << >>, fresh |-> FALSE, src |-> << >>]

\* an encrypt_body that does not use the caller's key
encrypt_body_fixed_key(e, key) == encrypt_bytes(e.version, "", e.body)

\* ChipaFile::encrypt_body
encrypt_body(e, key) == encrypt_bytes(e.version, key, e.body)

\* a decrypt_body that hands back the bytes as they are when decryption fails
decrypt_body_unchecked(e, key) ==
    IF decrypt_bytes(e.version, key, e.body).ok
    THEN decrypt_bytes(e.version, key, e.body)
    ELSE [ok |-> TRUE, bytes |-> e.body]

\* ChipaFile::decrypt_body
decrypt_body(e, key) == decrypt_bytes(e.version, key, e.body)

\* ChipaFile::new; fresh and src record where the body came from
NewEnvelope(version, payload) ==
    [held |-> TRUE, version |-> version, body |-> to_vec(payload),
     fresh |-> TRUE, src |-> payload]

\* the faults the environment can make a save meet
SaveFaults == {"none", "encrypt_bytes", "to_vec", "base_encrypt_bytes", "open",
               "write_prefix", "write_data"}

\* a save that opens and truncates the file before it encrypts anything
SaveOutcomeOpenFirst(e, file, key, fault) ==
    LET start == RawSeq(to_be_bytes(VersionNumber(e.version)))
        body == encrypt_body(e, key)
        data == SerializeEnvelope(e.version, body)
        data_encrypted == base_encrypt_bytes(e.version, data)
        opened == OpenTruncate(file)
        prefixed == WriteAt(opened, 0, start)
        written == WriteAt(prefixed, Len(start), data_encrypted)
    IN CASE fault = "encrypt_bytes" -> [res |-> "Encryption", file |-> opened]
         [] fault = "to_vec" -> [res |-> "Encode", file |-> opened]
         [] fault = "base_encrypt_bytes" -> [res |-> "Encryption", file |-> opened]
         [] fault = "open" -> [res |-> "FileCreation", file |-> file]
         [] fault = "write_prefix" -> [res |-> "FileCreation", file |-> opened]
         [] fault = "write_data" -> [res |-> "FileCreation", file |-> prefixed]
         [] OTHER -> [res |-> "Ok", file |-> written]

\* a save whose prefix is the number of V1 whatever the envelope's version
SaveOutcomePrefixV1(e, file, key, fault) ==
    LET start == RawSeq(to_be_bytes(VersionNumber(V1)))
        body == encrypt_body(e, key)
        data == SerializeEnvelope(e.version, body)
        data_encrypted == base_encrypt_bytes(e.version, data)
        opened == OpenTruncate(file)
        prefixed == WriteAt(opened, 0, start)
        written == WriteAt(prefixed, Len(start), data_encrypted)
    IN CASE fault = "encrypt_bytes" -> [res |-> "Encryption", file |-> file]
         [] fault = "to_vec" -> [res |-> "Encode", file |-> file]
         [] fault = "base_encrypt_bytes" -> [res |-> "Encryption", file |-> file]
         [] fault = "open" -> [res |-> "FileCreation", file |-> file]
         [] fault = "write_prefix" -> [res |-> "FileCreation", file |-> opened]
         [] fault = "write_data" -> [res |-> "FileCreation", file |-> prefixed]
         [] OTHER -> [res |-> "Ok", file |-> written]

\* ChipaFile::save: the result and the file at the normalized path after it
SaveOutcome(e, file, key, fault) ==
    LET start == RawSeq(to_be_bytes(VersionNumber(e.version)))
        body == encrypt_body(e, key)
        data == SerializeEnvelope(e.version, body)
        data_encrypted == base_encrypt_bytes(e.version, data)
        opened == OpenTruncate(file)
        prefixed == WriteAt(opened, 0, start)
        written == WriteAt(prefixed, Len(start), data_encrypted)
    IN CASE fault = "encrypt_bytes" -> [res |-> "Encryption", file |-> file]
         [] fault = "to_vec" -> [res |-> "Encode", file |-> file]
         [] fault = "base_encrypt_bytes" -> [res |-> "Encryption", file |-> file]
         [] fault = "open" -> [res |-> "FileCreation", file |-> file]
         [] fault = "write_prefix" -> [res |-> "FileCreation", file |-> opened]
         [] fault = "write_data" -> [res |-> "FileCreation", file |-> prefixed]
         [] OTHER -> [res |-> "Ok", file |-> written]

LoadFail(res, trace) == [res |-> res, env |-> NoEnv, trace |-> trace]

\* a load that hands back the envelope as deserialized, its body still
\* the ciphertext that decrypt_body accepted
LoadBytesSealedBody(file, key) ==
    LET number == PrefixNumber(file[1].v, file[2].v)
        version == VersionTryFrom(number)
    IN IF ~version.ok
       THEN LoadFail("Decryption", <<"read", "version">>)
       ELSE LET slice == base_decrypt_bytes(version.version, SubSeq(file, 3, Len(file)))
            IN IF ~slice.ok
               THEN LoadFail("Decryption", <<"read", "version", "base_decrypt">>)
               ELSE LET chipa_file == DeserializeEnvelope(slice.bytes)
                    IN IF ~chipa_file.ok
                       THEN LoadFail("Decode",
                              <<"read", "version", "base_decrypt", "deserialize">>)
                       ELSE LET body == decrypt_body(chipa_file, key)
                            IN IF ~body.ok
                               THEN LoadFail("Decryption",
                                      <<"read", "version", "base_decrypt",
                                        "deserialize", "decrypt_body">>)
                               ELSE [res |-> "Ok",
                                     env |-> [held |-> TRUE,
                                              version |-> chipa_file.version,
                                              body |-> chipa_file.body,
                                              fresh |-> FALSE, src |-> << >>],
                                     trace |-> <<"read", "version", "base_decrypt",
                                                 "deserialize", "decrypt_body">>]

\* ChipaFile::load from the version prefix on: the result, the envelope
\* and the steps it went through
LoadBytes(file, key) ==
    LET number == PrefixNumber(file[1].v, file[2].v)
        version == VersionTryFrom(number)
    IN IF ~version.ok
       THEN LoadFail("Decryption", <<"read", "version">>)
       ELSE LET slice == base_decrypt_bytes(version.version, SubSeq(file, 3, Len(file)))
            IN IF ~slice.ok
               THEN LoadFail("Decryption", <<"read", "version", "base_decrypt">>)
               ELSE LET chipa_file == DeserializeEnvelope(slice.bytes)
                    IN IF ~chipa_file.ok
                       THEN LoadFail("Decode",
                              <<"read", "version", "base_decrypt", "deserialize">>)
                       ELSE LET body == decrypt_body(chipa_file, key)
                            IN IF ~body.ok
                               THEN LoadFail("Decryption",
                                      <<"read", "version", "base_decrypt",
                                        "deserialize", "decrypt_body">>)
                               ELSE [res |-> "Ok",
                                     env |-> [held |-> TRUE,
                                              version |-> chipa_file.version,
                                              body |-> body.bytes,
                                              fresh |-> FALSE, src |-> << >>],
                                     trace |-> <<"read", "version", "base_decrypt",
                                                 "deserialize", "decrypt_body">>]

\* a length check that lets a file of one byte through to the version parse
LoadFileOffByOne(fsys, path, key) ==
    IF ~fsys[path].exists THEN LoadFail("FileCreation", <<"read">>)
    ELSE IF Len(fsys[path].data) < 1 THEN LoadFail("InvalidFileFormat", <<"read">>)
    ELSE IF Len(fsys[path].data) = 1 THEN LoadFail("panic", <<"read", "version">>)
    ELSE LoadBytes(fsys[path].data, key)

\* ChipaFile::load from std::fs::read on
LoadFile(fsys, path, key) ==
    IF ~fsys[path].exists THEN LoadFail("FileCreation", <<"read">>)
    ELSE IF Len(fsys[path].data) < 2 THEN LoadFail("InvalidFileFormat", <<"read">>)
    ELSE LoadBytes(fsys[path].data, key)

\* a load that corrects the extension the way save does
LoadOutcomeNormalizing(fsys, path, key) == LoadFile(fsys, SavePath(path), key)

\* ChipaFile::load: the extension is matched before anything is read
LoadOutcome(fsys, path, key) ==
    IF ~LoadPathOk(path) THEN LoadFail("InvalidFileFormat", << >>)
    ELSE LoadFile(fsys, path, key)

\* ChipaFile::read::<T>
ReadOutcome(e) ==
    LET data == from_slice(e.body)
    IN IF data.ok THEN [res |-> "Ok", val |-> data.val]
       ELSE [res |-> "Decode", val |-> << >>]

\* a write that appends the new payload bytes to the ones held
WriteEnvelopeAppend(e, payload) ==
    [e EXCEPT !.body = @ \o to_vec(payload), !.fresh = TRUE, !.src = payload]

\* ChipaFile::write, the assignment self.body = data
WriteEnvelope(e, payload) ==
    [e EXCEPT !.body = to_vec(payload), !.fresh = TRUE, !.src = payload]

\* the faults a write can meet: the value's Serialize fails in to_vec
WriteFaults == {"none", "to_vec"}

\* ChipaFile::write: the result and the envelope after it
WriteOutcome(e, payload, fault) ==
    IF fault = "to_vec" THEN [res |-> "Encode", env |-> e]
    ELSE [res |-> "Ok", env |-> WriteEnvelope(e, payload)]

----------------------------------------------------------------------------
(* The envelope operations as actions *)

\* what is remembered of the save that last completed on a file: its
\* arguments, the envelope it was called on, how many saves completed on
\* the file and the longest content the file ever had
NoSave == [valid |-> FALSE, path |-> << >>, version |-> 0, key |-> "", fresh |-> FALSE,
           payload |-> << >>, body |-> << >>, count |-> 0, longest |-> 0]

Longer(a, b) == IF a >= b THEN a ELSE b

\* an operation with its arguments, its result, the steps a load went
\* through and the value a read returned
Op(op, path, key, res, trace, val) ==
    [op |-> op, path |-> path, key |-> key,
     res |-> res, trace |-> trace, val |-> val]

NoOp == Op("none", << >>, "", "Ok", << >>, << >>)

New(version, payload) ==
    /\ nops < MaxOps
    /\ env' = NewEnvelope(version, payload)
    /\ last' = Op("new", << >>, "", "Ok", << >>, << >>)
    /\ nops' = nops + 1
    /\ UNCHANGED <<fs, saved>>

Save(path, key, fault) ==
    /\ nops < MaxOps
    /\ env.held
    /\ LET npath == SavePath(path)
           out == SaveOutcome(env, fs[npath], key, fault)
       IN /\ fs' = [fs EXCEPT ![npath] = out.file]
          /\ saved' = [saved EXCEPT ![npath] =
                IF out.res = "Ok"
                THEN [valid |-> TRUE, path |-> path, version |-> env.version, key |-> key,
                      fresh |-> env.fresh, payload |-> env.src, body |-> env.body,
                      count |-> @.count + 1,
                      longest |-> Longer(@.longest, Len(out.file.data))]
                ELSE IF out.file = fs[npath] THEN @
                ELSE [NoSave EXCEPT !.count = saved[npath].count,
                                    !.longest = saved[npath].longest]]
          /\ last' = Op("save", path, key, out.res, << >>, << >>)
    /\ nops' = nops + 1
    /\ UNCHANGED env

Load(path, key) ==
    /\ nops < MaxOps
    /\ LET out == LoadOutcome(fs, path, key)
       IN /\ env' = IF out.res = "Ok" THEN out.env ELSE env
          /\ last' = Op("load", path, key, out.res, out.trace, << >>)
    /\ nops' = nops + 1
    /\ UNCHANGED <<fs, saved>>

Read ==
    /\ nops < MaxOps
    /\ env.held
    /\ LET out == ReadOutcome(env)
       IN last' = Op("read", << >>, "", out.res, << >>, out.val)
    /\ nops' = nops + 1
    /\ UNCHANGED <<fs, env, saved>>

Write(payload, fault) ==
    /\ nops < MaxOps
    /\ env.held
    /\ LET out == WriteOutcome(env, payload, fault)
       IN /\ env' = out.env
          /\ last' = Op("write", << >>, "", out.res, << >>, << >>)
    /\ nops' = nops + 1
    /\ UNCHANGED <<fs, saved>>

----------------------------------------------------------------------------
(* The files the program may find on disk when it starts *)

ForeignPayload == <<200>>

\* a container as save lays it out, under a prefix number of the writer's choice
Container(number, version, key, payload) ==
    RawSeq(to_be_bytes(number))
    \o base_encrypt_bytes(version,
         SerializeEnvelope(version, encrypt_bytes(version, key, to_vec(payload))))

\* files of other programs: too short, a V1 container under an unknown
\* version number, and one under a number whose low byte alone is V1
EmptyPath == <<"empty", "chipa">>
OnePath == <<"one", "chipa">>
UnknownPath == <<"unknown", "chipa">>
HighPath == <<"high", "chipa">>
OtherPath == <<"a", "txt">>

ForeignPaths == {EmptyPath, OnePath, UnknownPath, HighPath}

InitFs ==
    [f \in Files \cup ForeignPaths |->
        CASE f = EmptyPath -> FileOf(<< >>)
          [] f = OnePath -> FileOf(RawSeq(<<0>>))
          [] f = UnknownPath -> FileOf(Container(V2 + 1, V1, "k1", ForeignPayload))
          [] f = HighPath -> FileOf(Container(ByteMod + V1, V1, "k1", ForeignPayload))
          [] f = OtherPath -> FileOf(RawSeq(<<7>>))
          [] OTHER -> NoFile]

InitFile ==
    /\ fs = InitFs
    /\ env = NoEnv
    /\ last = NoOp
    /\ saved = [f \in Files |-> NoSave]
    /\ nops = 0

----------------------------------------------------------------------------
(* The secure channel (src/src/client.rs).  The identifier-scoped          *)
(* operations of the encryptor are symbolic: a header token and a          *)
(* ciphertext name the identifier they were made under.                    *)

CallIds == {1, 2}
Licenses == {"L1", "L2"}
Applications == {"my-app"}
Urls == {"base", "other"}
Statuses == {200, 300, 404}

\* StatusCode::is_success
is_success(status) == status >= 200 /\ status < 300

\* the JSON texts a response body may decrypt to
NoDoc == [fields |-> {}, token |-> "", error |-> ""]
TokenDoc == [fields |-> {"success", "token"}, token |-> "T1", error |-> ""]
ErrorDoc == [fields |-> {"error"}, token |-> "", error |-> "E1"]
BothDoc == [fields |-> {"success", "token", "error"}, token |-> "T2", error |-> "E2"]
TokenOnlyDoc == [fields |-> {"token"}, token |-> "T3", error |-> ""]
Docs == {TokenDoc, ErrorDoc, BothDoc, TokenOnlyDoc}

\* encryptor.encrypt_header(id)
encrypt_header(id) == <<"header", id>>

\* response bodies on the wire: empty, not a ciphertext, or a text
\* encrypted under an identifier
EmptyBody == [kind |-> "empty", id |-> "", doc |-> NoDoc]
JunkBody == [kind |-> "junk", id |-> "", doc |-> NoDoc]
CipherBody(id, doc) == [kind |-> "cipher", id |-> id, doc |-> doc]
Bodies == {EmptyBody, JunkBody} \cup {CipherBody(id, doc) : id \in Licenses, doc \in Docs}

\* encryptor.decrypt(id, body)
decrypt(id, body) ==
    IF body.kind = "cipher" /\ body.id = id
    THEN [ok |-> TRUE, text |-> body.doc]
    ELSE [ok |-> FALSE, text |-> NoDoc]

\* what the transport does with a request
TransportFail == [ok |-> FALSE, status |-> 0, body |-> EmptyBody]
TransportOutcomes ==
    {TransportFail} \cup {[ok |-> TRUE, status |-> st, body |-> b] : st \in Statuses, b \in Bodies}

\* SecureResponse { status, body: Option<String> }
NoResponse == [status |-> 0, some |-> FALSE, text |-> NoDoc]
SecureResponse(status, some, text) == [status |-> status, some |-> some, text |-> text]

\* SecureResult<String>
NoResult == [ok |-> FALSE, err |-> "", val |-> ""]
OkResult(val) == [ok |-> TRUE, err |-> "", val |-> val]
ErrResult(err, val) == [ok |-> FALSE, err |-> err, val |-> val]

\* serde_json::from_str::<ValidateResponse>
DecodesAsValidateResponse(text) == {"success", "token"} \subseteq text.fields

\* serde_json::from_str::<ApiError>
DecodesAsApiError(text) == "error" \in text.fields

\* SecureResponse::json::<ValidateResponse>, then .token
JsonValidateResponse(resp) ==
    IF resp.some /\ DecodesAsValidateResponse(resp.text)
    THEN OkResult(resp.text.token)
    ELSE ErrResult("Parsing", "")

\* a json::<ApiError> that takes a body it cannot decode for an error
\* without a message
JsonApiErrorLenient(resp) ==
    IF resp.some /\ DecodesAsApiError(resp.text)
    THEN ErrResult("Response", resp.text.error)
    ELSE ErrResult("Response", "")

\* SecureResponse::json::<ApiError>, then Err(TError::from(body))
JsonApiError(resp) ==
    IF resp.some /\ DecodesAsApiError(resp.text)
    THEN ErrResult("Response", resp.text.error)
    ELSE ErrResult("Parsing", "")

\* a validate_license that goes by the shape of the body, not by the status
ValidateOutcomeByShape(resp) ==
    IF resp.some /\ DecodesAsValidateResponse(resp.text)
    THEN JsonValidateResponse(resp)
    ELSE JsonApiError(resp)

\* validate_license after _send_secure returned a response
ValidateOutcome(resp) ==
    IF is_success(resp.status) THEN JsonValidateResponse(resp) ELSE JsonApiError(resp)

\* format!("{}/subscriptions/validateapp/{}/{}", base_url, license, application)
ValidateUrl(base, license, application) ==
    <<base, "subscriptions", "validateapp", license, application>>

IdleCall ==
    [pc |-> "idle", license |-> "", url |-> << >>, header |-> << >>,
     transport |-> TransportFail, resp |-> NoResponse, result |-> NoResult,
     requests |-> 0, decrypts |-> 0, decrypt_id |-> ""]

\* TClient::set_url
SetUrl(url) ==
    /\ base_url' = url
    /\ UNCHANGED calls

\* validate_license is called: the url is formatted, _send_secure begins
StartCall(c, license, application) ==
    /\ calls[c].pc \in {"idle", "done"}
    /\ calls' = [calls EXCEPT ![c] =
          [IdleCall EXCEPT !.pc = "header", !.license = license,
                           !.url = ValidateUrl(base_url, license, application)]]
    /\ UNCHANGED base_url

\* encryptor.encrypt_header(id).await?
EncryptHeader(c, ok) ==
    /\ calls[c].pc = "header"
    /\ calls' = [calls EXCEPT ![c] =
          IF ok
          THEN [@ EXCEPT !.pc = "execute", !.header = encrypt_header(calls[c].license)]
          ELSE [@ EXCEPT !.pc = "done", !.result = ErrResult("Anyhow", "")]]
    /\ UNCHANGED base_url

\* an execute step that hands every body, the empty one too, to decrypt
ExecuteAlwaysDecrypt(c, outcome) ==
    /\ calls[c].pc = "execute"
    /\ calls' = [calls EXCEPT ![c] =
          IF ~outcome.ok
          THEN [@ EXCEPT !.pc = "done", !.requests = @ + 1,
                         !.result = ErrResult("Request", "")]
          ELSE [@ EXCEPT !.pc = "decrypt", !.requests = @ + 1, !.transport = outcome]]
    /\ UNCHANGED base_url

\* an execute step that sends the request again when the transport fails
ExecuteRetrying(c, outcome) ==
    /\ calls[c].pc = "execute"
    /\ calls' = [calls EXCEPT ![c] =
          IF ~outcome.ok
          THEN [@ EXCEPT !.requests = @ + 1]
          ELSE IF outcome.body.kind = "empty"
          THEN LET resp == SecureResponse(outcome.status, FALSE, NoDoc)
               IN [@ EXCEPT !.pc = "done", !.requests = @ + 1, !.transport = outcome,
                            !.resp = resp, !.result = ValidateOutcome(resp)]
          ELSE [@ EXCEPT !.pc = "decrypt", !.requests = @ + 1, !.transport = outcome]]
    /\ UNCHANGED base_url

\* self.inner.execute(req.build()?).await?, response.status(),
\* response.text().await?, and the match on body.is_empty(); with an empty
\* body validate_license goes on at once
Execute(c, outcome) ==
    /\ calls[c].pc = "execute"
    /\ calls' = [calls EXCEPT ![c] =
          IF ~outcome.ok
          THEN [@ EXCEPT !.pc = "done", !.requests = @ + 1,
                         !.result = ErrResult("Request", "")]
          ELSE IF outcome.body.kind = "empty"
          THEN LET resp == SecureResponse(outcome.status, FALSE, NoDoc)
               IN [@ EXCEPT !.pc = "done", !.requests = @ + 1, !.transport = outcome,
                            !.resp = resp, !.result = ValidateOutcome(resp)]
          ELSE [@ EXCEPT !.pc = "decrypt", !.requests = @ + 1, !.transport = outcome]]
    /\ UNCHANGED base_url

\* a decrypt step that reports a body it cannot decrypt as a parsing failure
DecryptBodyAsParsing(c) ==
    /\ calls[c].pc = "decrypt"
    /\ LET call == calls[c]
           decrypted_body == decrypt(call.license, call.transport.body)
           resp == SecureResponse(call.transport.status, TRUE, decrypted_body.text)
       IN calls' = [calls EXCEPT ![c] =
             IF ~decrypted_body.ok
             THEN [@ EXCEPT !.pc = "done", !.decrypts = @ + 1,
                            !.decrypt_id = call.license,
                            !.result = ErrResult("Parsing", "")]
             ELSE [@ EXCEPT !.pc = "done", !.decrypts = @ + 1,
                            !.decrypt_id = call.license,
                            !.resp = resp, !.result = ValidateOutcome(resp)]]
    /\ UNCHANGED base_url

\* a decrypt step keyed by an identifier kept on the client, the one of
\* the first call, instead of the identifier passed to _send_secure
DecryptBodySharedId(c) ==
    /\ calls[c].pc = "decrypt"
    /\ LET call == calls[c]
           id == calls[1].license
           decrypted_body == decrypt(id, call.transport.body)
           resp == SecureResponse(call.transport.status, TRUE, decrypted_body.text)
       IN calls' = [calls EXCEPT ![c] =
             IF ~decrypted_body.ok
             THEN [@ EXCEPT !.pc = "done", !.decrypts = @ + 1,
                            !.decrypt_id = id,
                            !.result = ErrResult("Anyhow", "")]
             ELSE [@ EXCEPT !.pc = "done", !.decrypts = @ + 1,
                            !.decrypt_id = id,
                            !.resp = resp, !.result = ValidateOutcome(resp)]]
    /\ UNCHANGED base_url

\* encryptor.decrypt(id, &body).await?, then the rest of validate_license
DecryptBody(c) ==
    /\ calls[c].pc = "decrypt"
    /\ LET call == calls[c]
           decrypted_body == decrypt(call.license, call.transport.body)
           resp == SecureResponse(call.transport.status, TRUE, decrypted_body.text)
       IN calls' = [calls EXCEPT ![c] =
             IF ~decrypted_body.ok
             THEN [@ EXCEPT !.pc = "done", !.decrypts = @ + 1,
                            !.decrypt_id = call.license,
                            !.result = ErrResult("Anyhow", "")]
             ELSE [@ EXCEPT !.pc = "done", !.decrypts = @ + 1,
                            !.decrypt_id = call.license,
                            !.resp = resp, !.result = ValidateOutcome(resp)]]
    /\ UNCHANGED base_url

InitClient ==
    /\ calls = [c \in CallIds |-> IdleCall]
    /\ base_url = "base"

----------------------------------------------------------------------------
(* Two save calls running at once, each on an envelope of its own, every   *)
(* system call of save a step: the open, the write of the prefix and the   *)
(* write of the ciphertext.                                                *)

SaverIds == {1, 2}

\* the paths the concurrent saves are given: both name the file a.chipa
RacePaths == {<<"a">>, <<"a", "chipa">>}

IdleSaver ==
    [pc |-> "idle", env |-> NoEnv, path |-> << >>, key |-> "",
     start |-> << >>, data_encrypted |-> << >>, pos |-> 0]

\* what save writes when nothing else touches the file
Complete(s) == savers[s].start \o savers[s].data_encrypted

\* save up to the open: the path is normalized, the prefix, the payload
\* ciphertext, the serialized envelope and its base encryption are computed
SaveBegin(s, version, payload, path, key) ==
    /\ savers[s].pc = "idle"
    /\ LET e == NewEnvelope(version, payload)
           start == RawSeq(to_be_bytes(VersionNumber(e.version)))
           body == encrypt_body(e, key)
           data == SerializeEnvelope(e.version, body)
       IN savers' = [savers EXCEPT ![s] =
             [pc |-> "open", env |-> e, path |-> SavePath(path), key |-> key,
              start |-> start,
              data_encrypted |-> base_encrypt_bytes(e.version, data),
              pos |-> 0]]
    /\ UNCHANGED fs

\* an open that waits while another save has the file open
SaveOpenExclusive(s) ==
    /\ savers[s].pc = "open"
    /\ \A t \in SaverIds \ {s} : savers[t].pc \notin {"prefix", "data"}
    /\ fs' = [fs EXCEPT ![savers[s].path] = OpenTruncate(@)]
    /\ savers' = [savers EXCEPT ![s].pc = "prefix", ![s].pos = 0]

\* OpenOptions::new().create(true).write(true).truncate(true).open(path)?
SaveOpen(s) ==
    /\ savers[s].pc = "open"
    /\ fs' = [fs EXCEPT ![savers[s].path] = OpenTruncate(@)]
    /\ savers' = [savers EXCEPT ![s].pc = "prefix", ![s].pos = 0]

\* file.write_all(start.as_slice())?; file.flush()?
SaveWritePrefix(s) ==
    /\ savers[s].pc = "prefix"
    /\ fs' = [fs EXCEPT ![savers[s].path] = WriteAt(@, savers[s].pos, savers[s].start)]
    /\ savers' = [savers EXCEPT ![s].pc = "data",
                                ![s].pos = @ + Len(savers[s].start)]

\* file.write_all(data_encrypted.as_ref())?; file.flush()?; Ok(())
SaveWriteData(s) ==
    /\ savers[s].pc = "data"
    /\ fs' = [fs EXCEPT ![savers[s].path] =
                 WriteAt(@, savers[s].pos, savers[s].data_encrypted)]
    /\ savers' = [savers EXCEPT ![s].pc = "done",
                                ![s].pos = @ + Len(savers[s].data_encrypted)]

InitSavers == savers = [s \in SaverIds |-> IdleSaver]

Init == InitFile /\ InitClient /\ InitSavers

Next ==
    /\ \/ \E version \in KnownVersions, payload \in Payloads : New(version, payload)
       \/ \E path \in RawPaths, key \in Keys, fault \in SaveFaults : Save(path, key, fault)
       \/ \E path \in RawPaths \cup ForeignPaths, key \in Keys : Load(path, key)
       \/ Read
       \/ \E payload \in Payloads, fault \in WriteFaults : Write(payload, fault)
    /\ UNCHANGED <<clientVars, savers>>

Spec == Init /\ [][Next]_vars

NextClient ==
    /\ \/ \E url \in Urls : SetUrl(url)
       \/ \E c \in CallIds, license \in Licenses, application \in Applications :
             StartCall(c, license, application)
       \/ \E c \in CallIds, ok \in BOOLEAN : EncryptHeader(c, ok)
       \/ \E c \in CallIds, outcome \in TransportOutcomes : Execute(c, outcome)
       \/ \E c \in CallIds : DecryptBody(c)
    /\ UNCHANGED <<fileVars, savers>>

SpecClient == Init /\ [][NextClient]_vars

NextRace ==
    /\ \/ \E s \in SaverIds, version \in KnownVersions, payload \in Payloads,
             path \in RacePaths, key \in Keys :
             SaveBegin(s, version, payload, path, key)
       \/ \E s \in SaverIds : SaveOpen(s)
       \/ \E s \in SaverIds : SaveWritePrefix(s)
       \/ \E s \in SaverIds : SaveWriteData(s)
    /\ UNCHANGED <<env, last, saved, nops, clientVars>>

SpecRace == Init /\ [][NextRace]_vars

----------------------------------------------------------------------------
(* Properties of the envelope codec, checked under Spec *)

Range(q) == {q[i] : i \in 1..Len(q)}

LastLoad == last.op = "load"
LastSave == last.op = "save"

\* the last operation loaded a file on which a save completed, nothing
\* having touched the file since
LoadAfterSave ==
    /\ LastLoad
    /\ last.path \in Files
    /\ saved[last.path].valid

\* C1: a load with the key of the completed save of an envelope made by new
\* (or write), on a path whose extension is the container extension,
\* succeeds, and read on the loaded envelope returns the payload.
C1_RoundTrip ==
    (/\ LoadAfterSave
     /\ LoadPathOk(last.path)
     /\ saved[last.path].fresh
     /\ last.key = saved[last.path].key)
    => /\ last.res = "Ok"
       /\ ReadOutcome(env) = [res |-> "Ok", val |-> saved[last.path].payload]

C1_Witness ==
    /\ LoadAfterSave
    /\ saved[last.path].path = last.path
    /\ saved[last.path].fresh
    /\ last.key = saved[last.path].key
    /\ last.res = "Ok"
    /\ ReadOutcome(env).val = <<7, NoneElem, 200>>

\* C2: a load with a key other than the key of the completed save fails
\* with a Decryption error raised by decrypt_body, and returns no envelope.
C2_WrongKey ==
    (/\ LoadAfterSave
     /\ last.key # saved[last.path].key)
    => /\ last.res = "Decryption"
       /\ last.trace[Len(last.trace)] = "decrypt_body"

C2_Witness ==
    /\ LoadAfterSave
    /\ saved[last.path].path = last.path
    /\ last.key # saved[last.path].key
    /\ last.res = "Decryption"

\* C3: a load on a path without the container extension fails with
\* InvalidFileFormat having read and decrypted nothing, also when a save to
\* the same path has just completed and its file is at the corrected path.
C3_LoadExtension ==
    (LastLoad /\ ~LoadPathOk(last.path))
    => /\ last.res = "InvalidFileFormat"
       /\ last.trace = << >>

C3_Witness ==
    /\ LastLoad
    /\ ~LoadPathOk(last.path)
    /\ saved[SavePath(last.path)].valid
    /\ saved[SavePath(last.path)].path = last.path
    /\ saved[SavePath(last.path)].key = last.key
    /\ last.res = "InvalidFileFormat"

\* C4: a save to a path without the container extension never fails for
\* the extension; when it succeeds the file at the path with the extension
\* set loads back to the envelope, and the file at the path as given is
\* what it was when the program started.
C4_SaveNormalizes ==
    (LastSave /\ ~LoadPathOk(last.path))
    => /\ last.res # "InvalidFileFormat"
       /\ fs[last.path] = InitFs[last.path]
       /\ last.res = "Ok" =>
            LET out == LoadOutcome(fs, SetExtension(last.path, ContainerExt), last.key)
            IN /\ out.res = "Ok"
               /\ out.env.version = env.version
               /\ out.env.body = env.body

C4_Witness ==
    /\ LastSave
    /\ last.path = <<"a", "txt">>
    /\ last.res = "Ok"
    /\ fs[<<"a", "chipa">>].exists
    /\ fs[<<"a", "txt">>].exists

\* C5: a load of a file of two bytes or more whose first two bytes are
\* not the number of a known version fails with a Decryption error, and
\* neither base decryption nor payload decryption is attempted.
C5_UnknownVersion ==
    (/\ LastLoad
     /\ LoadPathOk(last.path)
     /\ fs[last.path].exists
     /\ Len(fs[last.path].data) >= 2
     /\ (fs[last.path].data[1].v * 256 + fs[last.path].data[2].v) \notin KnownVersions)
    => /\ last.res = "Decryption"
       /\ "base_decrypt" \notin Range(last.trace)
       /\ "decrypt_body" \notin Range(last.trace)

C5_Witness ==
    /\ LastLoad
    /\ last.path = HighPath
    /\ last.key = "k1"
    /\ last.res = "Decryption"

\* C6: a load of a file of no byte or of one byte, on a path with the
\* container extension, fails with InvalidFileFormat after the read alone:
\* no version is parsed, nothing is decrypted.
C6_Truncated ==
    (/\ LastLoad
     /\ LoadPathOk(last.path)
     /\ fs[last.path].exists
     /\ Len(fs[last.path].data) < 2)
    => /\ last.res = "InvalidFileFormat"
       /\ last.trace = <<"read">>

C6_Witness ==
    /\ LastLoad
    /\ last.path = OnePath
    /\ Len(fs[last.path].data) = 1
    /\ last.res = "InvalidFileFormat"

\* C7: after a save that succeeded the file is the two clear bytes of the
\* version number, high byte first, followed by the base encryption of the
\* serialized {version, encrypted body}; and for every 16-bit number the
\* parse of load gives back the number whose bytes save writes (a fact of
\* the two functions, evaluated in the initial state).
C7_Layout ==
    /\ (LastSave /\ last.res = "Ok") =>
          LET file == fs[SavePath(last.path)].data
              number == VersionNumber(env.version)
          IN /\ Len(file) >= 2
             /\ IsClear(file[1]) /\ IsClear(file[2])
             /\ file[1].v = number \div 256
             /\ file[2].v = number % 256
             /\ file[1].v * 256 + file[2].v = number
             /\ SubSeq(file, 3, Len(file)) =
                   base_encrypt_bytes(env.version,
                       SerializeEnvelope(env.version,
                           encrypt_bytes(env.version, last.key, env.body)))
    /\ nops = 0 =>
          \A n \in 0..U16Max :
              PrefixNumber(to_be_bytes(n)[1], to_be_bytes(n)[2]) = n

C7_Witness ==
    /\ LastSave
    /\ last.res = "Ok"
    /\ env.version = V2
    /\ Len(fs[SavePath(last.path)].data) > 2

\* C8: whenever saves have completed on a file, the file is the container
\* of the most recent one and nothing more, and a load with that save's key
\* returns that save's envelope body and payload.
C8_LastSaveWins ==
    \A f \in Files :
        saved[f].valid =>
            LET out == LoadOutcome(fs, f, saved[f].key)
            IN /\ fs[f].data =
                     Container(VersionNumber(saved[f].version), saved[f].version,
                               saved[f].key, saved[f].payload)
                  \/ ~saved[f].fresh
               /\ Len(fs[f].data) =
                     Len(RawSeq(to_be_bytes(VersionNumber(saved[f].version))))
                     + Len(base_encrypt_bytes(saved[f].version,
                             SerializeEnvelope(saved[f].version,
                               encrypt_bytes(saved[f].version, saved[f].key, saved[f].body))))
               /\ out.res = "Ok"
               /\ out.env.body = saved[f].body
               /\ saved[f].fresh => ReadOutcome(out.env).val = saved[f].payload

C8_Witness ==
    \E f \in Files :
        /\ saved[f].valid
        /\ saved[f].fresh
        /\ saved[f].count >= 2
        /\ Len(fs[f].data) < saved[f].longest

\* no byte of the sequence is in the clear
Sealed(bytes) == \A i \in 1..Len(bytes) : ~IsClear(bytes[i])

\* every byte of the sequence is in the clear
Clear(bytes) == \A i \in 1..Len(bytes) : IsClear(bytes[i])

\* the envelope inside the file of a completed save, its base layer taken off
InnerEnvelope(f) ==
    LET data == fs[f].data
        slice == base_decrypt_bytes(saved[f].version, SubSeq(data, 3, Len(data)))
    IN IF slice.ok THEN DeserializeEnvelope(slice.bytes)
       ELSE [ok |-> FALSE, version |-> 0, body |-> << >>]

\* C15 as stated: the body of an envelope the caller holds is ciphertext,
\* never the serialized payload in the clear.
C15_AsStated ==
    env.held =>
       /\ Len(env.body) > 0
       /\ Sealed(env.body)
       /\ env.fresh => env.body # to_vec(env.src)

\* C15: the body of an envelope the caller holds, after new, write or load,
\* is the serialized payload in the clear, the bytes that read decodes; the
\* ciphertext of the payload is held only by the envelope that save
\* serializes into the file.
C15_BodyInClear ==
    /\ env.held =>
          /\ Len(env.body) > 0
          /\ Clear(env.body)
          /\ env.fresh => env.body = to_vec(env.src)
    /\ \A f \in Files :
          saved[f].valid =>
             LET inner == InnerEnvelope(f)
             IN /\ inner.ok
                /\ Sealed(inner.body)
                /\ inner.body = encrypt_bytes(saved[f].version, saved[f].key,
                                              saved[f].body)

C15_Witness ==
    /\ LoadAfterSave
    /\ last.res = "Ok"
    /\ env.held
    /\ ~env.fresh
    /\ env.body = to_vec(<<7, NoneElem, 200>>)
    /\ Sealed(InnerEnvelope(last.path).body)

\* the step is a write
WriteStep == last'.op = "write" /\ nops' = nops + 1

\* C16: a write changes no file and not the envelope's version; when it
\* succeeds a read of the envelope returns the value written, and a load of
\* a file saved before still returns the payload saved; when it fails the
\* envelope is what it was.
C16_WriteInMemory ==
    [][WriteStep =>
         /\ fs' = fs
         /\ saved' = saved
         /\ env'.version = env.version
         /\ last'.res = "Ok" =>
               /\ ReadOutcome(env') = [res |-> "Ok", val |-> env'.src]
               /\ \A f \in Files :
                     (saved[f].valid /\ saved[f].fresh) =>
                        LET out == LoadFile(fs', f, saved[f].key)
                        IN /\ out.res = "Ok"
                           /\ ReadOutcome(out.env).val = saved[f].payload
         /\ last'.res # "Ok" => env' = env]_vars

C16_Witness ==
    /\ last.op = "write"
    /\ last.res = "Ok"
    /\ ReadOutcome(env).val = <<200>>
    /\ \E f \in Files :
          /\ saved[f].valid
          /\ saved[f].payload = <<7, NoneElem, 200>>
          /\ ReadOutcome(LoadFile(fs, f, saved[f].key).env).val = <<7, NoneElem, 200>>

\* the step is a save
SaveStep == last'.op = "save" /\ nops' = nops + 1

\* C18: a save never changes the envelope it is called on, and a save that
\* fails with an Encode or Encryption error leaves every file as it was:
\* neither created nor truncated.
C18_SaveFailure ==
    [][SaveStep =>
         /\ env' = env
         /\ last'.res \in {"Encode", "Encryption"} => fs' = fs]_vars

C18_Witness ==
    /\ LastSave
    /\ last.res \in {"Encode", "Encryption"}
    /\ saved[SavePath(last.path)].valid
    /\ Len(fs[SavePath(last.path)].data) > 2
    /\ LoadFile(fs, SavePath(last.path), saved[SavePath(last.path)].key).res = "Ok"

\* C19: in the file of a completed save the version of the 2-byte prefix
\* is the version inside the base-encrypted envelope and the version of the
\* envelope saved; a load of the file returns an envelope of that version.
C19_VersionConsistency ==
    /\ \A f \in Files :
          saved[f].valid =>
             LET data == fs[f].data
                 number == PrefixNumber(data[1].v, data[2].v)
                 inner == InnerEnvelope(f)
                 out == LoadFile(fs, f, saved[f].key)
             IN /\ number = VersionNumber(saved[f].version)
                /\ inner.ok
                /\ VersionNumber(inner.version) = number
                /\ out.res = "Ok"
                /\ out.env.version = saved[f].version
    /\ (LoadAfterSave /\ last.res = "Ok") =>
          /\ env.version = saved[last.path].version
          /\ VersionNumber(env.version) =
                PrefixNumber(fs[last.path].data[1].v, fs[last.path].data[2].v)

C19_Witness ==
    /\ LoadAfterSave
    /\ last.res = "Ok"
    /\ env.version = V2
    /\ PrefixNumber(fs[last.path].data[1].v, fs[last.path].data[2].v) = VersionNumber(V2)
    /\ InnerEnvelope(last.path).version = V2

----------------------------------------------------------------------------
(* Properties of concurrent saves, checked under SpecRace *)

\* the file the savers write
RaceFile == fs[<<"a", "chipa">>]

\* C17: nothing excludes two saves on one path from each other: whatever
\* the position of the other save, a save that is due to open, to write
\* its prefix or to write its ciphertext can take that step; a save that
\* ran alone leaves the file that save writes in one piece.  The witness
\* is the interleaving of the claim: both saves over and the file neither
\* save's output, the later writer's container followed by a tail of the
\* other's longer ciphertext, which does not load.
C17_NoExclusion ==
    \A s \in SaverIds :
        /\ savers[s].pc = "open" => ENABLED SaveOpen(s)
        /\ savers[s].pc = "prefix" => ENABLED SaveWritePrefix(s)
        /\ savers[s].pc = "data" => ENABLED SaveWriteData(s)
        /\ (savers[s].pc = "done" /\ \A t \in SaverIds \ {s} : savers[t].pc = "idle") =>
              /\ RaceFile.data = Complete(s)
              /\ RaceFile = SaveOutcome(savers[s].env, InitFs[savers[s].path],
                                        savers[s].key, "none").file

C17_Witness ==
    \E s, t \in SaverIds :
        /\ savers[s].pc = "done"
        /\ savers[t].pc = "done"
        /\ Len(Complete(t)) > Len(Complete(s))
        /\ RaceFile.data # Complete(s)
        /\ RaceFile.data # Complete(t)
        /\ RaceFile.data =
              Complete(s) \o SubSeq(Complete(t), Len(Complete(s)) + 1, Len(Complete(t)))
        /\ LoadFile(fs, savers[s].path, savers[s].key).res # "Ok"
        /\ LoadFile(fs, savers[t].path, savers[t].key).res # "Ok"

----------------------------------------------------------------------------
(* Properties of the secure channel, checked under SpecClient *)

\* the transport answered call c and the call is over
Answered(c) ==
    /\ calls[c].pc = "done"
    /\ calls[c].requests >= 1
    /\ calls[c].transport.ok

\* C9: when the transport's response has an empty body, _send_secure
\* returns {status, body: None} and decrypt is not invoked; decrypt is
\* invoked only on a body that is not empty; the status returned is the
\* transport's in both cases.
C9_EmptyBody ==
    \A c \in CallIds :
        /\ (Answered(c) /\ calls[c].transport.body.kind = "empty") =>
              /\ calls[c].decrypts = 0
              /\ calls[c].resp = SecureResponse(calls[c].transport.status, FALSE, NoDoc)
        /\ calls[c].decrypts > 0 =>
              /\ calls[c].transport.ok
              /\ calls[c].transport.body.kind # "empty"
        /\ (Answered(c) /\ calls[c].resp.some) =>
              /\ calls[c].decrypts = 1
              /\ calls[c].resp.status = calls[c].transport.status

C9_Witness ==
    \E c, d \in CallIds :
        /\ Answered(c)
        /\ calls[c].transport.body.kind = "empty"
        /\ calls[c].transport.status = 404
        /\ ~calls[c].resp.some
        /\ Answered(d)
        /\ calls[d].resp.some
        /\ calls[d].decrypts = 1

\* the response body of call c decrypts under the call's license
Decryptable(c) ==
    /\ Answered(c)
    /\ calls[c].transport.body.kind = "cipher"
    /\ calls[c].transport.body.id = calls[c].license

\* C10: with a success status and a body that decrypts to {success, token}
\* validate_license returns that token; with another status and a body
\* that decrypts to {error} it fails with a Response error of that message;
\* it returns no token for a status that is not a success.
C10_OutcomeByStatus ==
    \A c \in CallIds :
        LET call == calls[c]
            text == call.transport.body.doc
            success == call.transport.status \in 200..299
        IN /\ (Decryptable(c) /\ success /\ {"success", "token"} \subseteq text.fields) =>
                 call.result = OkResult(text.token)
           /\ (Decryptable(c) /\ ~success /\ "error" \in text.fields) =>
                 call.result = ErrResult("Response", text.error)
           /\ (call.pc = "done" /\ call.result.ok) => (call.transport.ok /\ success)

C10_Witness ==
    \E c, d \in CallIds :
        /\ Decryptable(c)
        /\ calls[c].transport.status = 200
        /\ calls[c].result = OkResult("T1")
        /\ Decryptable(d)
        /\ calls[d].transport.status = 404
        /\ calls[d].transport.body.doc = BothDoc
        /\ calls[d].result = ErrResult("Response", "E2")

\* the call c got a response out of _send_secure: the transport answered
\* and the body was empty or decrypted under the call's license
Responded(c) ==
    /\ Answered(c)
    /\ \/ calls[c].transport.body.kind = "empty"
       \/ Decryptable(c)

\* C11: when the response body is empty (body: None), or decrypts to a text
\* that does not decode as the shape for the status (ValidateResponse on a
\* success status, ApiError on another), validate_license fails with a
\* Parsing error, whatever the status.
C11_ParsingFailure ==
    \A c \in CallIds :
        LET call == calls[c]
            text == call.transport.body.doc
            success == call.transport.status \in 200..299
            decodes == /\ call.transport.body.kind = "cipher"
                       /\ IF success
                          THEN {"success", "token"} \subseteq text.fields
                          ELSE "error" \in text.fields
        IN (Responded(c) /\ ~decodes) => call.result = ErrResult("Parsing", "")

C11_Witness ==
    \E c, d \in CallIds :
        /\ Answered(c)
        /\ calls[c].transport.body.kind = "empty"
        /\ calls[c].transport.status = 200
        /\ calls[c].result = ErrResult("Parsing", "")
        /\ Decryptable(d)
        /\ calls[d].transport.status = 404
        /\ calls[d].transport.body.doc = TokenDoc
        /\ calls[d].result = ErrResult("Parsing", "")

\* the transport failed on the request of call c
TransportFailed(c) ==
    /\ calls[c].pc = "done"
    /\ calls[c].requests >= 1
    /\ ~calls[c].transport.ok

\* decrypt was invoked on the body of call c and failed
DecryptFailed(c) ==
    /\ calls[c].pc = "done"
    /\ calls[c].decrypts >= 1
    /\ ~decrypt(calls[c].decrypt_id, calls[c].transport.body).ok

\* C12 as stated: a transport failure is returned as a Request error, and
\* a failure to decrypt a body that is not empty as an error of the
\* Response or Decryption class.
C12_AsStated ==
    \A c \in CallIds :
        /\ TransportFailed(c) => calls[c].result = ErrResult("Request", "")
        /\ DecryptFailed(c) =>
              /\ ~calls[c].result.ok
              /\ calls[c].result.err \in {"Response", "Decryption"}

\* C12: a transport failure is returned as a Request error; a failure to
\* decrypt a body that is not empty is returned as an Anyhow error, which
\* is neither a Request, a Parsing nor a Response error, and is the error
\* a failed header derivation returns too.
C12_ErrorClasses ==
    \A c \in CallIds :
        /\ TransportFailed(c) => calls[c].result = ErrResult("Request", "")
        /\ DecryptFailed(c) => calls[c].result = ErrResult("Anyhow", "")
        /\ (calls[c].pc = "done" /\ calls[c].header = << >>) =>
              calls[c].result = ErrResult("Anyhow", "")

C12_Witness ==
    \E c, d \in CallIds :
        /\ TransportFailed(c)
        /\ calls[c].result.err = "Request"
        /\ DecryptFailed(d)
        /\ calls[d].transport.body.kind = "cipher"
        /\ calls[d].result.err = "Anyhow"

\* C13: a validate_license call sends at most one request and decrypts at
\* most once; a call that ended with an error sent no request after the
\* failure; a call whose header derivation failed sent none at all.
C13_NoRetry ==
    \A c \in CallIds :
        LET call == calls[c]
        IN /\ call.requests <= 1
           /\ call.decrypts <= call.requests
           /\ call.pc \in {"idle", "header", "execute"} => call.requests = 0
           /\ call.pc = "decrypt" => call.requests = 1
           /\ (call.pc = "done" /\ call.header = << >>) =>
                 /\ call.requests = 0
                 /\ ~call.result.ok
           /\ (call.pc = "done" /\ call.header # << >>) => call.requests = 1

C13_Witness ==
    \E c, d \in CallIds :
        /\ calls[c].pc = "done"
        /\ calls[c].header = << >>
        /\ calls[c].requests = 0
        /\ calls[c].result = ErrResult("Anyhow", "")
        /\ TransportFailed(d)
        /\ calls[d].requests = 1
        /\ calls[d].result = ErrResult("Request", "")

\* what holds of every call in every state: header and decryption are
\* keyed by the call's own license, and a body is decrypted only when it
\* was encrypted under that license
OwnKeyScope ==
    \A c \in CallIds :
        LET call == calls[c]
        IN /\ call.header # << >> => call.header = encrypt_header(call.license)
           /\ call.decrypts > 0 => call.decrypt_id = call.license
           /\ (call.header # << >> /\ call.decrypts > 0) =>
                 call.header = encrypt_header(call.decrypt_id)
           /\ (call.pc = "done" /\ call.resp.some) =>
                 call.transport.body.id = call.license

\* what holds of every step of a call: it changes that call only, leaves
\* the base URL alone, and keeps the license of a call that is under way
CallStepFrame ==
    \A c \in CallIds :
        calls'[c] # calls[c] =>
           /\ base_url' = base_url
           /\ \A d \in CallIds \ {c} : calls'[d] = calls[d]
           /\ calls[c].pc \in {"header", "execute", "decrypt"} =>
                 calls'[c].license = calls[c].license

\* C14: in every interleaving of two validate_license calls on one client,
\* each call derives its header and decrypts its response under its own
\* license identifier, the same for both, and a step of a call changes
\* neither the other call nor the client's base URL.
C14_KeyScope == [](OwnKeyScope) /\ [][CallStepFrame]_vars

C14_Witness ==
    \E c, d \in CallIds :
        /\ calls[c].license # calls[d].license
        /\ calls[c].pc = "decrypt"
        /\ calls[c].transport.body.kind = "cipher"
        /\ calls[c].transport.body.id = calls[d].license
        /\ calls[d].pc = "done"
        /\ calls[d].decrypts = 1
        /\ calls[d].result.ok
        /\ base_url = "other"

====
